---- MODULE Spec2Model ----
(***************************************************************************)
(* Model of homework.py: the Training class hierarchy (Running,            *)
(* SportsWalking, Swimming), the InfoMessage report, the read_package      *)
(* factory and the __main__ driver loop.                                   *)
(*                                                                         *)
(* Numbers are exact rationals [n |-> numerator, d |-> denominator > 0] in *)
(* lowest terms: the arithmetic of the formulas is carried out operation   *)
(* by operation in the order Python evaluates it, without the rounding of  *)
(* binary floating point.  A Python exception is the value [exc |-> name]; *)
(* an arithmetic operator whose operand is an exception yields that        *)
(* exception, which is how a raise propagates out of an expression.        *)
(***************************************************************************)
EXTENDS Integers, Sequences, FiniteSets, TLC

VARIABLES
    heap,       \* the Training instances alive, in order of construction
    origin,     \* origin[i]: the call that constructed heap[i]
    shown,      \* shown[i]: what each show_training_info() call on heap[i] returned or raised
    ret,        \* outcome of the last constructor/read_package call
    input,      \* arguments of the read_package call under test (factory specification)
    packages,   \* the driver's list of (workout_type, data) entries
    idx,        \* the driver's position in packages (1-based)
    training,   \* the driver's local variable `training`
    printed,    \* the InfoMessages whose get_message() the driver printed, in order
    pc          \* control position

vars == <<heap, origin, shown, ret, input, packages, idx, training, printed, pc>>

(***************************************************************************)
(* Bounds of the model.                                                    *)
(***************************************************************************)
MaxObjs == 2
MaxShows == 2
MaxExtra == 1
MaxPackages == 3

(***************************************************************************)
(* Rational arithmetic.                                                    *)
(***************************************************************************)
Abs(x) == IF x < 0 THEN -x ELSE x

RECURSIVE GCD(_, _)
GCD(a, b) == IF b = 0 THEN a ELSE GCD(b, a % b)

\* n/d in lowest terms, d # 0
Q(n, d) ==
    LET s == IF d < 0 THEN -1 ELSE 1
        g == GCD(Abs(n), Abs(d))
    IN  [n |-> (s * n) \div g, d |-> (s * d) \div g]

Num(n) == [n |-> n, d |-> 1]

IsExc(x) == "exc" \in DOMAIN x

Raise(name) == [exc |-> name]

RatAdd(a, b) ==
    LET g == GCD(a.d, b.d)
        l == (a.d \div g) * b.d
    IN  Q(a.n * (l \div a.d) + b.n * (l \div b.d), l)

RatMul(a, b) ==
    IF a.n = 0 \/ b.n = 0 THEN Num(0)
    ELSE LET g1 == GCD(Abs(a.n), b.d)
             g2 == GCD(Abs(b.n), a.d)
         IN  [n |-> (a.n \div g1) * (b.n \div g2),
              d |-> (a.d \div g2) * (b.d \div g1)]

RatInv(a) == IF a.n < 0 THEN [n |-> -a.d, d |-> -a.n] ELSE [n |-> a.d, d |-> a.n]

\* Python's  x + y
PyAdd(x, y) == IF IsExc(x) THEN x ELSE IF IsExc(y) THEN y ELSE RatAdd(x, y)

\* Python's  x * y
PyMul(x, y) == IF IsExc(x) THEN x ELSE IF IsExc(y) THEN y ELSE RatMul(x, y)

\* Python's  x / y : true division, ZeroDivisionError on a zero divisor
\* (for int and float operands alike)
PyDiv(x, y) ==
    IF IsExc(x) THEN x
    ELSE IF IsExc(y) THEN y
    ELSE IF y.n = 0 THEN Raise("ZeroDivisionError")
    ELSE RatMul(x, RatInv(y))

\* Python's  x ** 2
PySquare(x) == PyMul(x, x)

(***************************************************************************)
(* Class attributes.                                                       *)
(***************************************************************************)
\* self.LEN_STEP: Training.LEN_STEP, overridden by Swimming.LEN_STEP
LEN_STEP(cls) == IF cls = "Swimming" THEN Q(138, 100) ELSE Q(65, 100)

M_IN_KM == Num(1000)
MIN_IN_H == Num(60)
CALORIES_MEAN_SPEED_MULTIPLIER == Num(18)
CALORIES_MEAN_SPEED_SHIFT == Q(179, 100)
CALORIES_WEIGHT_MULTIPLIER == Q(35, 1000)
CALORIES_SPEED_HEIGHT_MULTIPLIER == Q(29, 1000)
KMH_IN_MSEC == Q(278, 1000)
CM_IN_M == Num(100)
CALORIES_MEAN_SWIM_MULTIPLIER == Q(11, 10)
CALORIES_MEAN_SWIM_SHIFT == Num(2)

(***************************************************************************)
(* Constructors.  args is the sequence of positional arguments after self. *)
(***************************************************************************)
Training__init__(cls, args) ==
    [cls |-> cls, action |-> args[1], duration |-> args[2], weight |-> args[3]]

SportsWalking__init__(args) ==
    [cls |-> "SportsWalking", action |-> args[1], duration |-> args[2],
     weight |-> args[3], height |-> PyDiv(args[4], CM_IN_M)]


\* Swimming.__init__ with the two pool parameters bound the other way round
Swimming__init__Swapped(args) ==
    [cls |-> "Swimming", action |-> args[1], duration |-> args[2],
     weight |-> args[3], length_pool |-> args[5], count_pool |-> args[4]]

Swimming__init__(args) ==
    [cls |-> "Swimming", action |-> args[1], duration |-> args[2],
     weight |-> args[3], length_pool |-> args[4], count_pool |-> args[5]]

\* number of positional parameters of cls.__init__ after self
NParams(cls) ==
    CASE cls = "SportsWalking" -> 4
      [] cls = "Swimming" -> 5
      [] OTHER -> 3


\* a constructor call that ignores surplus positional arguments (*args)
ConstructIgnoringSurplus(cls, args) ==
    IF Len(args) < NParams(cls) THEN Raise("TypeError")
    ELSE CASE cls = "SportsWalking" -> SportsWalking__init__(args)
           [] cls = "Swimming" -> Swimming__init__(args)
           [] OTHER -> Training__init__(cls, args)

\* cls(*args): binding the arguments to __init__'s parameters raises TypeError
\* when their number differs (too few: missing argument; too many: takes N
\* positional arguments); otherwise __init__ runs and the instance is returned
Construct(cls, args) ==
    IF Len(args) # NParams(cls) THEN Raise("TypeError")
    ELSE CASE cls = "SportsWalking" -> SportsWalking__init__(args)
           [] cls = "Swimming" -> Swimming__init__(args)
           [] OTHER -> Training__init__(cls, args)

(***************************************************************************)
(* Methods.                                                                *)
(***************************************************************************)
get_distance(self) == PyDiv(PyMul(self.action, LEN_STEP(self.cls)), M_IN_KM)


\* get_mean_speed guarding the division: 0 for a zero duration
Training_get_mean_speed_Guarded(self) ==
    IF self.duration.n = 0 THEN Num(0)
    ELSE PyDiv(PyDiv(PyMul(self.action, LEN_STEP(self.cls)), M_IN_KM), self.duration)

Training_get_mean_speed(self) ==
    PyDiv(PyDiv(PyMul(self.action, LEN_STEP(self.cls)), M_IN_KM), self.duration)


\* Swimming without its override: the inherited step-count speed
Swimming_get_mean_speed_Inherited(self) ==
    PyDiv(PyDiv(PyMul(self.action, LEN_STEP(self.cls)), M_IN_KM), self.duration)

Swimming_get_mean_speed(self) ==
    PyDiv(PyDiv(PyMul(self.length_pool, self.count_pool), M_IN_KM), self.duration)

\* method resolution of self.get_mean_speed()
get_mean_speed(self) ==
    IF self.cls = "Swimming" THEN Swimming_get_mean_speed(self)
    ELSE Training_get_mean_speed(self)


\* a base class with a default calorie count instead of the raise
Training_get_spent_calories_Default(self) == Num(0)

Training_get_spent_calories(self) == Raise("NotImplementedError")

Running_get_spent_calories(self) ==
    PyMul(PyMul(PyDiv(PyMul(
        PyAdd(PyDiv(PyDiv(PyMul(PyMul(CALORIES_MEAN_SPEED_MULTIPLIER, self.action),
                                LEN_STEP(self.cls)),
                          M_IN_KM),
                    self.duration),
              CALORIES_MEAN_SPEED_SHIFT),
        self.weight), M_IN_KM), self.duration), MIN_IN_H)

SportsWalking_get_spent_calories(self) ==
    PyMul(PyMul(
        PyAdd(PyMul(CALORIES_WEIGHT_MULTIPLIER, self.weight),
              PyMul(PyMul(PyDiv(PySquare(PyMul(get_mean_speed(self), KMH_IN_MSEC)),
                                self.height),
                          CALORIES_SPEED_HEIGHT_MULTIPLIER),
                    self.weight)),
        self.duration), MIN_IN_H)


\* the two swimming constants used in each other's place
Swimming_get_spent_calories_ConstantsSwapped(self) ==
    PyMul(PyMul(PyMul(PyAdd(get_mean_speed(self), CALORIES_MEAN_SWIM_SHIFT),
                      CALORIES_MEAN_SWIM_MULTIPLIER),
                self.weight),
          self.duration)

Swimming_get_spent_calories(self) ==
    PyMul(PyMul(PyMul(PyAdd(get_mean_speed(self), CALORIES_MEAN_SWIM_MULTIPLIER),
                      CALORIES_MEAN_SWIM_SHIFT),
                self.weight),
          self.duration)

\* method resolution of self.get_spent_calories()
get_spent_calories(self) ==
    CASE self.cls = "Running" -> Running_get_spent_calories(self)
      [] self.cls = "SportsWalking" -> SportsWalking_get_spent_calories(self)
      [] self.cls = "Swimming" -> Swimming_get_spent_calories(self)
      [] OTHER -> Training_get_spent_calories(self)

\* The arguments of InfoMessage(...) are evaluated left to right; the first
\* one that raises ends the call with that exception.
show_training_info(self) ==
    LET distance == get_distance(self)
        speed == get_mean_speed(self)
        calories == get_spent_calories(self)
    IN  IF IsExc(distance) THEN distance
        ELSE IF IsExc(speed) THEN speed
        ELSE IF IsExc(calories) THEN calories
        ELSE [training_type |-> self.cls, duration |-> self.duration,
              distance |-> distance, speed |-> speed, calories |-> calories]

(***************************************************************************)
(* read_package.                                                           *)
(***************************************************************************)
training_type == [SWM |-> "Swimming", RUN |-> "Running", WLK |-> "SportsWalking"]


\* read_package looking the class up with a default (dict.get) instead of
\* rejecting an unknown workout_type
read_package_DefaultClass(workout_type, data) ==
    IF workout_type \notin DOMAIN training_type THEN Construct("Running", data)
    ELSE Construct(training_type[workout_type], data)

read_package(workout_type, data) ==
    IF workout_type \notin DOMAIN training_type THEN Raise("ValueError")
    ELSE Construct(training_type[workout_type], data)

(***************************************************************************)
(* Inputs.                                                                 *)
(***************************************************************************)
Durations == {Num(-1), Num(0), Num(1)}

\* well-formed payloads, per class
RunningData ==
    {<<a, t, w>> : a \in {Num(15000)}, t \in Durations, w \in {Num(75)}}

SportsWalkingData ==
    {<<a, t, w, h>> : a \in {Num(20000)}, t \in Durations,
                      w \in {Num(75)}, h \in {Num(180)}}

SwimmingData ==
    {<<a, t, w, l, c>> : a \in {Num(720), Num(1440)}, t \in Durations,
                         w \in {Num(80)}, l \in {Num(25)}, c \in {Num(40)}}

RECURSIVE Zeros(_)
Zeros(k) == IF k = 0 THEN <<>> ELSE <<Num(0)>> \o Zeros(k - 1)

\* the payloads obtained from the well-formed ones S by dropping trailing
\* values or appending up to MaxExtra surplus values
Resized(S) ==
    UNION {{SubSeq(p, 1, k) : k \in 0..Len(p)} : p \in S} \cup
    {p \o Zeros(k) : p \in S, k \in 0..MaxExtra}

Tags == {"SWM", "RUN", "WLK", "XYZ", "run"}

WellFormed(tag) ==
    CASE tag = "RUN" -> RunningData
      [] tag = "WLK" -> SportsWalkingData
      [] tag = "SWM" -> SwimmingData
      [] OTHER -> RunningData \cup SportsWalkingData \cup SwimmingData

Inputs ==
    UNION {{[workout_type |-> tag, data |-> p] : p \in Resized(WellFormed(tag))} :
           tag \in Tags}

NoInput == [workout_type |-> "", data |-> <<>>]
NoObject == [cls |-> "None"]
NoRet == [exc |-> "None", ref |-> 0]

\* the entries the driver's list is drawn from
PackageSamples ==
    {[workout_type |-> "SWM", data |-> <<Num(720), Num(1), Num(80), Num(25), Num(40)>>],
     [workout_type |-> "RUN", data |-> <<Num(15000), Num(1), Num(75)>>],
     [workout_type |-> "WLK", data |-> <<Num(20000), Num(1), Num(75), Num(180)>>],
     [workout_type |-> "XYZ", data |-> <<Num(1), Num(1), Num(1)>>],
     [workout_type |-> "RUN", data |-> <<Num(1), Num(1)>>]}

\* what the client passes to read_package: every well-formed input of the
\* three classes, and the driver's entries (two of which are rejected)
ClientInputs ==
    PackageSamples \cup
    UNION {{[workout_type |-> tag, data |-> p] : p \in WellFormed(tag)} :
           tag \in DOMAIN training_type}

PackageLists == UNION {[1..k -> PackageSamples] : k \in 0..MaxPackages}

(***************************************************************************)
(* Operations on the heap of instances.                                    *)
(***************************************************************************)
\* training = read_package(workout_type, data)
ReadPackage(workout_type, data) ==
    LET r == read_package(workout_type, data)
    IN  /\ Len(heap) < MaxObjs
        /\ IF IsExc(r)
             THEN /\ ret' = [exc |-> r.exc, ref |-> 0]
                  /\ UNCHANGED <<heap, origin, shown>>
             ELSE /\ heap' = Append(heap, r)
                  /\ origin' = Append(origin, "read_package")
                  /\ shown' = Append(shown, <<>>)
                  /\ ret' = [exc |-> "None", ref |-> Len(heap) + 1]

\* Training(action, duration, weight): the base class instantiated directly
NewTraining(args) ==
    LET r == Construct("Training", args)
    IN  /\ Len(heap) < MaxObjs
        /\ IF IsExc(r)
             THEN /\ ret' = [exc |-> r.exc, ref |-> 0]
                  /\ UNCHANGED <<heap, origin, shown>>
             ELSE /\ heap' = Append(heap, r)
                  /\ origin' = Append(origin, "Training")
                  /\ shown' = Append(shown, <<>>)
                  /\ ret' = [exc |-> "None", ref |-> Len(heap) + 1]


\* show_training_info() that consumes the step counter it reports
ShowTrainingInfoResetting(i) ==
    /\ Len(shown[i]) < MaxShows
    /\ shown' = [shown EXCEPT ![i] = Append(@, show_training_info(heap[i]))]
    /\ heap' = [heap EXCEPT ![i].action = Num(0)]
    /\ UNCHANGED <<origin, ret>>

\* heap[i].show_training_info(): reads the instance, assigns nothing
ShowTrainingInfo(i) ==
    /\ Len(shown[i]) < MaxShows
    /\ shown' = [shown EXCEPT ![i] = Append(@, show_training_info(heap[i]))]
    /\ UNCHANGED <<heap, origin, ret>>

(***************************************************************************)
(* Specification Spec: a client that constructs instances (through         *)
(* read_package, or the base class directly) and calls                     *)
(* show_training_info() on them, any number of times in any order.         *)
(***************************************************************************)
Init ==
    /\ heap = <<>>
    /\ origin = <<>>
    /\ shown = <<>>
    /\ ret = NoRet
    /\ input = NoInput
    /\ packages = <<>>
    /\ idx = 0
    /\ training = NoObject
    /\ printed = <<>>
    /\ pc = "client"

ClientReadPackage ==
    /\ pc = "client"
    /\ \E inp \in ClientInputs : ReadPackage(inp.workout_type, inp.data)
    /\ UNCHANGED <<input, packages, idx, training, printed, pc>>

ClientNewTraining ==
    /\ pc = "client"
    /\ \E args \in RunningData : NewTraining(args)
    /\ UNCHANGED <<input, packages, idx, training, printed, pc>>

ClientShowTrainingInfo ==
    /\ pc = "client"
    /\ \E i \in DOMAIN heap : ShowTrainingInfo(i)
    /\ UNCHANGED <<input, packages, idx, training, printed, pc>>

Next == ClientReadPackage \/ ClientNewTraining \/ ClientShowTrainingInfo

Spec == Init /\ [][Next]_vars

(***************************************************************************)
(* Specification SpecFactory: read_package as a function of its arguments. *)
(***************************************************************************)
InitFactory ==
    /\ heap = <<>>
    /\ origin = <<>>
    /\ shown = <<>>
    /\ ret = NoRet
    /\ input \in Inputs
    /\ packages = <<>>
    /\ idx = 0
    /\ training = NoObject
    /\ printed = <<>>
    /\ pc = "call"

FactoryCall ==
    /\ pc = "call"
    /\ ReadPackage(input.workout_type, input.data)
    /\ pc' = "returned"
    /\ UNCHANGED <<input, packages, idx, training, printed>>

NextFactory == FactoryCall

SpecFactory == InitFactory /\ [][NextFactory]_vars

(***************************************************************************)
(* Specification SpecDriver: the __main__ loop over packages.  An          *)
(* exception that read_package or main raises is caught nowhere: it ends   *)
(* the loop and the program.                                               *)
(***************************************************************************)
InitDriver ==
    /\ heap = <<>>
    /\ origin = <<>>
    /\ shown = <<>>
    /\ ret = NoRet
    /\ input = NoInput
    /\ packages \in PackageLists
    /\ idx = 1
    /\ training = NoObject
    /\ printed = <<>>
    /\ pc = IF packages = <<>> THEN "exit" ELSE "read_package"

\* training = read_package(workout_type, data)
DriverReadPackage ==
    /\ pc = "read_package"
    /\ LET r == read_package(packages[idx].workout_type, packages[idx].data)
       IN  IF IsExc(r)
             THEN /\ pc' = "traceback"
                  /\ ret' = [exc |-> r.exc, ref |-> 0]
                  /\ UNCHANGED training
             ELSE /\ pc' = "main"
                  /\ training' = r
                  /\ UNCHANGED ret
    /\ UNCHANGED <<heap, origin, shown, input, packages, idx, printed>>

\* main(training), then the loop's next iteration or its end
DriverMain ==
    /\ pc = "main"
    /\ LET info == show_training_info(training)
       IN  IF IsExc(info)
             THEN /\ pc' = "traceback"
                  /\ ret' = [exc |-> info.exc, ref |-> 0]
                  /\ UNCHANGED <<printed, idx>>
             ELSE /\ printed' = Append(printed, info)
                  /\ idx' = idx + 1
                  /\ pc' = IF idx + 1 > Len(packages) THEN "exit" ELSE "read_package"
                  /\ UNCHANGED ret
    /\ UNCHANGED <<heap, origin, shown, input, packages, training>>

NextDriver == DriverReadPackage \/ DriverMain

SpecDriver == InitDriver /\ [][NextDriver]_vars

(***************************************************************************)
(* Properties.                                                             *)
(***************************************************************************)
Recognized == {"SWM", "RUN", "WLK"}

\* the number of payload values each recognized tag expects
ExpectedLen(tag) == CASE tag = "SWM" -> 5 [] tag = "RUN" -> 3 [] tag = "WLK" -> 4

ExpectedClass(tag) ==
    CASE tag = "SWM" -> "Swimming" [] tag = "RUN" -> "Running" [] tag = "WLK" -> "SportsWalking"

Returned == pc = "returned"

\* C1: for a recognized tag with a payload of the expected length (SWM 5,
\* RUN 3, WLK 4) read_package succeeds and returns one instance of the matching
\* class whose fields are the payload values bound by position: action,
\* duration, weight, then height (stored in metres: height_cm / 100), or
\* length_pool and count_pool.
C1_ReadPackageConstructsMatchingVariant ==
    (/\ Returned
     /\ input.workout_type \in Recognized
     /\ Len(input.data) = ExpectedLen(input.workout_type))
    => /\ ret = [exc |-> "None", ref |-> 1]
       /\ Len(heap) = 1
       /\ heap[1].cls = ExpectedClass(input.workout_type)
       /\ heap[1].action = input.data[1]
       /\ heap[1].duration = input.data[2]
       /\ heap[1].weight = input.data[3]
       /\ input.workout_type = "RUN" => DOMAIN heap[1] = {"cls", "action", "duration", "weight"}
       /\ input.workout_type = "WLK" =>
            /\ DOMAIN heap[1] = {"cls", "action", "duration", "weight", "height"}
            /\ heap[1].height = Q(input.data[4].n, input.data[4].d * 100)
       /\ input.workout_type = "SWM" =>
            /\ DOMAIN heap[1] =
                 {"cls", "action", "duration", "weight", "length_pool", "count_pool"}
            /\ heap[1].length_pool = input.data[4]
            /\ heap[1].count_pool = input.data[5]

C1_Witness ==
    /\ Returned
    /\ input.workout_type = "SWM"
    /\ Len(input.data) = 5
    /\ input.data[4] # input.data[5]
    /\ ret.exc = "None"
    /\ Len(heap) = 1

\* C2: for a tag that is not exactly "SWM", "RUN" or "WLK", and any payload,
\* read_package raises ValueError (the spec's UnknownModality) and constructs
\* nothing; the tag is checked before the payload is looked at.
C2_UnknownTagRaisesValueError ==
    (Returned /\ input.workout_type \notin Recognized)
    => (ret = [exc |-> "ValueError", ref |-> 0] /\ heap = <<>>)

C2_Witness ==
    /\ Returned
    /\ input.workout_type = "run"
    /\ Len(input.data) = 3
    /\ ret.exc = "ValueError"
    /\ heap = <<>>

\* C3: for a recognized tag and a payload shorter or longer than the class
\* expects, read_package raises TypeError (the generic construction failure
\* the spec calls MalformedPayload) and no instance is returned.
C3_WrongArityRaisesTypeError ==
    (/\ Returned
     /\ input.workout_type \in Recognized
     /\ Len(input.data) # ExpectedLen(input.workout_type))
    => (ret = [exc |-> "TypeError", ref |-> 0] /\ heap = <<>>)

C3_Witness ==
    /\ Returned
    /\ input.workout_type = "RUN"
    /\ Len(input.data) = 4
    /\ ret.exc = "TypeError"
    /\ heap = <<>>

Variants == {"Running", "SportsWalking", "Swimming"}

IsReport(r) == ~IsExc(r)

\* C4: for an instance of any of the three variants made by read_package from
\* a sample with duration 0, every show_training_info() call raises
\* ZeroDivisionError (at the first formula that divides by the duration) and
\* none returns a report.
C4_ZeroDurationNeverReports ==
    \A i \in DOMAIN heap :
        (origin[i] = "read_package" /\ heap[i].duration = Num(0))
        => \A k \in DOMAIN shown[i] : shown[i][k] = Raise("ZeroDivisionError")

C4_Witness ==
    /\ Len(heap) = 2
    /\ heap[1].cls = "SportsWalking" /\ heap[2].cls = "Swimming"
    /\ \A i \in {1, 2} :
          /\ origin[i] = "read_package"
          /\ heap[i].duration = Num(0)
          /\ Len(shown[i]) >= 1
          /\ shown[i][1] = Raise("ZeroDivisionError")

\* C5: every report show_training_info() produces has duration > 0 (a sample
\* with a negative duration is rejected and never summarized).
C5_EveryReportHasPositiveDuration ==
    \A i \in DOMAIN heap : \A k \in DOMAIN shown[i] :
        IsReport(shown[i][k]) => shown[i][k].duration.n > 0

Terminated == pc \in {"exit", "traceback"}

UnknownEntry(j) == packages[j].workout_type \notin Recognized

ValidEntry(j) ==
    /\ packages[j].workout_type \in Recognized
    /\ Len(packages[j].data) = ExpectedLen(packages[j].workout_type)

\* C6: when the driver has ended, every entry with a recognized tag and a
\* correctly sized payload that comes after an unknown-tag entry (all entries
\* before it being valid or unknown-tag ones) has been constructed, summarized
\* and its report printed: the loop went past it.
C6_UnknownTagDoesNotAbortBatch ==
    Terminated =>
        \A j \in DOMAIN packages :
            (/\ ValidEntry(j)
             /\ \E k \in 1..(j - 1) : UnknownEntry(k)
             /\ \A k \in 1..(j - 1) : UnknownEntry(k) \/ ValidEntry(k))
            => /\ idx > j
               /\ \E m \in DOMAIN printed :
                     printed[m] = show_training_info(
                         read_package(packages[j].workout_type, packages[j].data))

\* C7: all show_training_info() calls on one instance return the same report
\* (or raise the same exception), field by field, and no step changes a field
\* of an existing instance.
C7_SummarizeIdempotent ==
    /\ [](\A i \in DOMAIN shown : \A j, k \in DOMAIN shown[i] : shown[i][j] = shown[i][k])
    /\ [][\A i \in DOMAIN heap : heap'[i] = heap[i]]_vars

C7_Witness ==
    \E i \in DOMAIN heap :
        /\ Len(shown[i]) = 2
        /\ IsReport(shown[i][1])
        /\ IsReport(shown[i][2])

\* pool_length * pool_laps / 1000 / duration, for a nonzero duration
PoolSpeed(self) ==
    RatMul(RatMul(RatMul(self.length_pool, self.count_pool), Q(1, 1000)),
           RatInv(self.duration))

\* C8: a Swimming report's speed is length_pool * count_pool / 1000 / duration,
\* and two Swimming instances that differ only in action have the same outcome:
\* both raise, or both report the same speed and the same calories.
C8_SwimmingSpeedIgnoresActionCount ==
    \A i \in DOMAIN heap : heap[i].cls = "Swimming" =>
        /\ \A k \in DOMAIN shown[i] :
              IsReport(shown[i][k]) => shown[i][k].speed = PoolSpeed(heap[i])
        /\ \A j \in DOMAIN heap :
              (heap[j].cls = "Swimming" /\ [heap[j] EXCEPT !.action = heap[i].action] = heap[i])
              => \A k \in DOMAIN shown[i], l \in DOMAIN shown[j] :
                    /\ IsReport(shown[i][k]) <=> IsReport(shown[j][l])
                    /\ IsReport(shown[i][k]) =>
                          /\ shown[i][k].speed = shown[j][l].speed
                          /\ shown[i][k].calories = shown[j][l].calories

C8_Witness ==
    /\ Len(heap) = 2
    /\ heap[1].cls = "Swimming" /\ heap[2].cls = "Swimming"
    /\ heap[1].action # heap[2].action
    /\ [heap[2] EXCEPT !.action = heap[1].action] = heap[1]
    /\ heap[1].duration.n > 0
    /\ Len(shown[1]) >= 1 /\ Len(shown[2]) >= 1
    /\ IsReport(shown[1][1]) /\ IsReport(shown[2][1])

ReferenceSwimming ==
    [cls |-> "Swimming", action |-> Num(720), duration |-> Num(1), weight |-> Num(80),
     length_pool |-> Num(25), count_pool |-> Num(40)]

\* C9: a Swimming report's calories are (speed + 1.1) * 2 * weight * duration
\* with speed the pool-geometry speed; the instance read from
\* ("SWM", [720, 1, 80, 25, 40]) reports speed 1 and calories 336.
C9_SwimmingCalories ==
    \A i \in DOMAIN heap : heap[i].cls = "Swimming" =>
        \A k \in DOMAIN shown[i] : IsReport(shown[i][k]) =>
            /\ shown[i][k].calories =
                 RatMul(RatMul(RatMul(RatAdd(PoolSpeed(heap[i]), Q(11, 10)), Num(2)),
                               heap[i].weight),
                        heap[i].duration)
            /\ heap[i] = ReferenceSwimming =>
                 (shown[i][k].speed = Num(1) /\ shown[i][k].calories = Num(336))

C9_Witness ==
    \E i \in DOMAIN heap :
        /\ origin[i] = "read_package"
        /\ heap[i] = ReferenceSwimming
        /\ Len(shown[i]) >= 1
        /\ IsReport(shown[i][1])

\* C10: on an instance of the base class, get_spent_calories raises
\* NotImplementedError and show_training_info() never returns a report; an
\* instance read_package returned is never of the base class and its
\* show_training_info() never raises NotImplementedError.
C10_UnimplementedOnlyOnBase ==
    \A i \in DOMAIN heap :
        /\ heap[i].cls = "Training" =>
             /\ get_spent_calories(heap[i]) = Raise("NotImplementedError")
             /\ \A k \in DOMAIN shown[i] : IsExc(shown[i][k])
        /\ origin[i] = "read_package" =>
             /\ heap[i].cls \in Variants
             /\ \A k \in DOMAIN shown[i] : shown[i][k] # Raise("NotImplementedError")

C10_Witness ==
    /\ Len(heap) = 2
    /\ origin[1] = "Training" /\ heap[1].cls = "Training"
    /\ Len(shown[1]) >= 1 /\ shown[1][1] = Raise("NotImplementedError")
    /\ origin[2] = "read_package"
    /\ Len(shown[2]) >= 1 /\ IsReport(shown[2][1])

====
